---- MODULE Spec2Model ----
(***************************************************************************)
(* Model of the indexer agent's reconciliation engine                      *)
(* (packages/indexer-agent/src/agent.ts, the second Agent class, lines     *)
(* 140-467): the plan computation of Agent.resolve and the startup and     *)
(* steady-state loops of Agent.start.                                      *)
(*                                                                         *)
(* A SubgraphDeploymentID is modelled by its bytes32 form, the only part   *)
(* the code compares.  Token amounts are in whole GRT (parseGRT scales by  *)
(* 10^18, which no comparison in the code depends on).                     *)
(***************************************************************************)
EXTENDS Integers, Sequences, FiniteSets, TLC

\* ------------------------------------------------------------------ bounds

\* Longest network-desired / locally-indexed list given to the plan computation.
MaxLen == 2
\* Longest allocation list given to the plan computation.
MaxAllocs == 2
\* Largest epoch number (current epoch, createdAtEpoch) of the bounded inputs.
MaxEpoch == 3
\* Largest maxAllocationEpochs of the bounded inputs.
MaxAllocationEpochs == 3
\* Longest list a collaborator returns to a tick of the steady-state loop.
MaxGathered == 2
\* Of the indexer.ensure calls a tick leaves unsettled, this many are followed
\* into the next ticks.
MaxEnsureCalls == 2
\* The deployments the network subgraph returns in the tick whose queue is
\* followed on its own: with the network subgraph deployment and one removal
\* the tick submits MaxQueued + 2 tasks, more than the queue runs at once.
MaxQueued == 10

\* --------------------------------------------------------------- constants

\* const MINIMUM_STAKE = parseGRT('10000000')
MINIMUM_STAKE == 10000000
\* const MINIMUM_SIGNAL = parseGRT('10000000')
MINIMUM_SIGNAL == 10000000

\* new PQueue({ concurrency: 10 })
Concurrency == 10

\* this.networkSubgraphDeployment: the self-tracking deployment.
networkSubgraphDeployment == "SELF"

\* The deployments (bytes32 forms) the bounded inputs are drawn from.
Deployments == {networkSubgraphDeployment, "X", "Y"}

\* The allocation ids the bounded inputs are drawn from.
AllocationIds == {"a1", "a2"}

\* ------------------------------------------------------------------- state

VARIABLES
    pc,                      \* position of the async function being run
    epoch,                   \* resolve's argument: the current epoch
    maxEpochsPerAllocation,  \* resolve's argument
    networkDeployments,      \* resolve's argument: network-desired list N
    indexerDeployments,      \* resolve's argument: locally-indexed list L
    allocations,             \* resolve's argument: active allocations
    toDeploy,                \* the plan: deployments to start indexing
    toRemove,                \* the plan: deployments to stop indexing
    toSettle,                \* the plan: allocations to settle
    toAllocate,              \* the plan: deployments to allocate to
    settled,                 \* network.settle calls of the tick that returned
    allocated,               \* network.allocate calls of the tick that returned
    inflight,                \* awaited network calls started and not returned
    tasks,                   \* the tick's PQueue: one entry per queue.add
    ensureCalls,             \* indexer.ensure calls of deploy tasks started, not returned
    unhandled,               \* rejections no handler caught, since the tick began
    warned,                  \* the tick's catch block has logged its warning
    startup,                 \* start()'s awaited startup calls and how each ended
    status,                  \* what the sync loop's last indexingStatus call reported
    error                    \* the error start() has rejected with, as message parts

\* The state of the QueryProcessor.
VARIABLES
    queries,                 \* this.queries: payment id -> pending query
    calls,                   \* the addPaidQuery / addPayment calls made, and their promises
    requests,                \* graphNode.post requests of processNow not yet answered
    posts,                   \* graphNode.post requests of processNow issued, per payment id
    unlocked,                \* payments unlockPayment has been called for
    cancelled,               \* payments cancelPayment has been called for
    sweepIn                  \* time left of the cleanup loop's delay(10000)

planVars == <<toDeploy, toRemove, toSettle, toAllocate>>
inputVars == <<epoch, maxEpochsPerAllocation, networkDeployments,
               indexerDeployments, allocations>>
execVars == <<settled, allocated, inflight, tasks, ensureCalls, unhandled, warned>>
startVars == <<startup, status, error>>
agentVars == <<pc, inputVars, planVars, execVars, startVars>>
qpVars == <<queries, calls, requests, posts, unlocked, cancelled, sweepIn>>
vars == <<agentVars, qpVars>>

\* The awaited calls of start() up to the steady-state loop, in program order.
StartupOrder ==
    <<"connect", "register", "ensureMinimumStake", "ensure", "indexingStatus">>

\* No indexingStatus call of the sync loop has returned.
NoStatus == [health |-> "none", synced |-> FALSE, fatalError |-> "undefined"]

\* The status that ends the sync loop, and the log of a start() that has come
\* to its steady-state loop: every startup call returned.
SyncedStatus == [health |-> "healthy", synced |-> TRUE, fatalError |-> "undefined"]

StartupDone == [i \in DOMAIN StartupOrder |-> <<StartupOrder[i], "returned">>]

\* ------------------------------------------- QueryProcessor: construction

\* The payment ids the calls of addPaidQuery and addPayment are drawn from.
PaymentIds == {"p1", "p2"}

\* The subgraphs a query can name, and those of them the payment manager has
\* a state channel for (stateChannelForSubgraph is defined for these only).
Subgraphs == {"S", "U"}

Channels == {"S"}

\* `now - query.updatedAt > 10000`: the age past which an entry is stale.
StaleAfter == 10000

\* `await delay(10000)`: the pause between two sweeps.
SweepDelay == 10000

\* Time is counted in steps of half the staleness threshold; an age is kept
\* up to the first step past the threshold.
TimeStep == StaleAfter \div 2

MaxAge == (StaleAfter \div TimeStep) + 1

\* `this.queries = new Map()`, then the constructor's call of
\* periodicallyCleanupStaleQueries, which runs to its first `await delay(10000)`
\* over the empty map.
QueryProcessorConstructed ==
    /\ queries = [p \in {} |-> {}]
    /\ calls = <<>>
    /\ requests = {}
    /\ posts = [p \in PaymentIds |-> 0]
    /\ unlocked = {}
    /\ cancelled = {}
    /\ sweepIn = SweepDelay \div TimeStep

\* ------------------------------------------------------- array primitives

\* The set of the sequence's elements.
Range(s) == {s[i] : i \in 1..Len(s)}

\* All sequences over S of length at most n.
SeqsUpTo(S, n) == UNION {[1..k -> S] : k \in 0..n}

\* Array.prototype.filter: the elements whose index is in `kept`, in order.
RECURSIVE KeepFrom(_, _, _)
KeepFrom(array, kept, i) ==
    IF i > Len(array) THEN <<>>
    ELSE (IF i \in kept THEN <<array[i]>> ELSE <<>>) \o KeepFrom(array, kept, i + 1)

Keep(array, kept) == KeepFrom(array, kept, 1)

\* Array.prototype.findIndex over a set of passing indices: the first one,
\* 0 for JS's -1.
FirstIndex(passing) ==
    IF passing = {} THEN 0
    ELSE CHOOSE i \in passing : \A j \in passing : i <= j

Max(a, b) == IF a >= b THEN a ELSE b

\* ------------------------------------------------- Agent.resolve: the plan

\* Mutant: the threshold without its `+ 1`.
settleBeforeEpochNoPlusOne(e, maxEpochs) == e - Max(1, maxEpochs)

\* const settleAllocationsBeforeEpoch = epoch - Math.max(1, maxEpochsPerAllocation) + 1
settleAllocationsBeforeEpoch(e, maxEpochs) == e - Max(1, maxEpochs) + 1

\* Mutant: one threshold alone makes the deployment not worth it.
NotWorthItEither(allocation) ==
    \/ allocation.subgraphDeployment.signalAmount < MINIMUM_SIGNAL
    \/ allocation.subgraphDeployment.stakedTokens < MINIMUM_STAKE

\* "...or the deployment isn't worth it anymore"
NotWorthIt(allocation) ==
    /\ allocation.subgraphDeployment.signalAmount < MINIMUM_SIGNAL
    /\ allocation.subgraphDeployment.stakedTokens < MINIMUM_STAKE

\* The callback of allocations.filter that identifies allocations to settle.
ShouldSettle(allocation, before) ==
    \/ allocation.createdAtEpoch < before
    \/ NotWorthIt(allocation)

\* Mutant: the filter without its negation keeps what is already indexed.
DeployFilterNoNegation(network, indexer) ==
    Keep(network, {i \in DOMAIN network :
                     \E j \in DOMAIN indexer : network[i] = indexer[j]})

\* let toDeploy = networkDeployments.filter(n => !indexerDeployments.find(...))
DeployFilter(network, indexer) ==
    Keep(network, {i \in DOMAIN network :
                     ~(\E j \in DOMAIN indexer : network[i] = indexer[j])})

\* Mutant: the indexed list compared with itself, so nothing is removed.
RemoveFilterSelfCompare(network, indexer) ==
    Keep(indexer, {i \in DOMAIN indexer :
                     ~(\E j \in DOMAIN indexer : indexer[i] = indexer[j])})

\* let toRemove = indexerDeployments.filter(i => !networkDeployments.find(...))
RemoveFilter(network, indexer) ==
    Keep(indexer, {i \in DOMAIN indexer :
                     ~(\E j \in DOMAIN network : indexer[i] = network[j])})

\* let toSettle = allocations.filter(...)
SettleFilter(allocs, before) ==
    Keep(allocs, {i \in DOMAIN allocs : ShouldSettle(allocs[i], before)})

\* Mutant: the filter looks only at the allocations that are worth keeping.
AllocateFilterWorthItOnly(network, allocs) ==
    Keep(network, {i \in DOMAIN network :
                     ~(\E j \in DOMAIN allocs :
                          /\ ~NotWorthIt(allocs[j])
                          /\ allocs[j].subgraphDeployment.id = network[i])})

\* let toAllocate = networkDeployments.filter(n => !allocations.find(...))
AllocateFilter(network, allocs) ==
    Keep(network, {i \in DOMAIN network :
                     ~(\E j \in DOMAIN allocs :
                          allocs[j].subgraphDeployment.id = network[i])})

\* Mutant: a uniqueness callback that keeps every entry.
uniqueDeploymentsKeepAll(value, index, array) == index \in DOMAIN array

\* array.findIndex(v => value.bytes32 === v.bytes32) === index
uniqueDeploymentsOnly(value, index, array) ==
    FirstIndex({i \in DOMAIN array : value = array[i]}) = index

\* array.findIndex(v => value.id === v.id) === index
uniqueAllocationsOnly(value, index, array) ==
    FirstIndex({i \in DOMAIN array : value.id = array[i].id}) = index

\* array.filter(uniqueDeploymentsOnly)
UniqueDeployments(array) ==
    Keep(array, {i \in DOMAIN array : uniqueDeploymentsOnly(array[i], i, array)})

\* array.filter(uniqueAllocationsOnly)
UniqueAllocations(array) ==
    Keep(array, {i \in DOMAIN array : uniqueAllocationsOnly(array[i], i, array)})

\* Mutant: the self-tracking deployment is not pushed when absent.
AlwaysDeployNoPush(deploy) == deploy

\* if (!toDeploy.find(d => d.bytes32 === self.bytes32)) toDeploy.push(self)
AlwaysDeploy(deploy) ==
    IF \E i \in DOMAIN deploy : deploy[i] = networkSubgraphDeployment
    THEN deploy
    ELSE Append(deploy, networkSubgraphDeployment)

\* toAllocate = toAllocate.filter(d => d.bytes32 !== self.bytes32)
NeverAllocate(allocate) ==
    Keep(allocate, {i \in DOMAIN allocate : allocate[i] # networkSubgraphDeployment})

\* The four lists Agent.resolve has computed when it logs `Apply changes`.
Plan(e, maxEpochs, network, indexer, allocs) ==
    [toDeploy   |-> AlwaysDeploy(UniqueDeployments(DeployFilter(network, indexer))),
     toRemove   |-> UniqueDeployments(RemoveFilter(network, indexer)),
     toSettle   |-> UniqueAllocations(
                        SettleFilter(allocs, settleAllocationsBeforeEpoch(e, maxEpochs))),
     toAllocate |-> NeverAllocate(UniqueDeployments(AllocateFilter(network, allocs)))]

\* --------------------------------------------- inputs of the plan computation

\* Allocation objects: id, subgraphDeployment (id and market info), createdAtEpoch.
AllocationRecords(ids, deployments, epochs, signals, stakes) ==
    {[id |-> a,
      subgraphDeployment |-> [id |-> d, signalAmount |-> sg, stakedTokens |-> st],
      createdAtEpoch |-> c] :
        a \in ids, d \in deployments, c \in epochs, sg \in signals, st \in stakes}

\* An allocation id names one allocation: entries with the same id are the
\* same object (a snapshot may still list it twice).
IdsAreKeys(allocs) ==
    \A i, j \in DOMAIN allocs : allocs[i].id = allocs[j].id => allocs[i] = allocs[j]

AllocationLists(records) == {a \in SeqsUpTo(records, MaxAllocs) : IdsAreKeys(a)}

\* Every N and L up to MaxLen (duplicates included), with allocations on every
\* deployment, all young, one of them below both thresholds.
DiffInputs ==
    [epoch : {MaxEpoch},
     maxEpochsPerAllocation : {1},
     networkDeployments : SeqsUpTo(Deployments, MaxLen),
     indexerDeployments : SeqsUpTo(Deployments, MaxLen),
     allocations : AllocationLists(
         AllocationRecords(AllocationIds, Deployments, {MaxEpoch},
                           {MINIMUM_SIGNAL}, {MINIMUM_STAKE})
         \cup AllocationRecords({"a1"}, {"X"}, {MaxEpoch},
                                {MINIMUM_SIGNAL - 1}, {MINIMUM_STAKE - 1}))]

\* Every epoch, maxEpochsPerAllocation, creation epoch and market info around
\* the thresholds, for a fixed N and L.
SettleInputs ==
    [epoch : 0..MaxEpoch,
     maxEpochsPerAllocation : 0..MaxAllocationEpochs,
     networkDeployments : {<<"X", networkSubgraphDeployment>>},
     indexerDeployments : {<<networkSubgraphDeployment>>},
     allocations : AllocationLists(
         AllocationRecords(AllocationIds, {"X"}, 0..MaxEpoch,
                           {MINIMUM_SIGNAL - 1, MINIMUM_SIGNAL},
                           {MINIMUM_STAKE - 1, MINIMUM_STAKE}))]

\* The spec's scenarios C and D: epoch 100, maxEpochsPerAllocation 28,
\* allocations created at epoch 50 and 99.
ScenarioInputs ==
    [epoch : {100},
     maxEpochsPerAllocation : {28},
     networkDeployments : {<<"X", networkSubgraphDeployment>>},
     indexerDeployments : {<<>>},
     allocations : AllocationLists(
         AllocationRecords({"a1"}, {"X"}, {50, 99},
                           {MINIMUM_SIGNAL - 1, MINIMUM_SIGNAL},
                           {MINIMUM_STAKE - 1, MINIMUM_STAKE}))]

PlanInputs == DiffInputs \cup SettleInputs \cup ScenarioInputs

\* ------------------------------------ the plan computation as a state machine

\* Agent.resolve has been called with some arguments and has computed nothing yet.
PlanInit ==
    /\ pc = "resolve"
    /\ \E in \in PlanInputs :
          /\ epoch = in.epoch
          /\ maxEpochsPerAllocation = in.maxEpochsPerAllocation
          /\ networkDeployments = in.networkDeployments
          /\ indexerDeployments = in.indexerDeployments
          /\ allocations = in.allocations
    /\ toDeploy = <<>>
    /\ toRemove = <<>>
    /\ toSettle = <<>>
    /\ toAllocate = <<>>
    /\ settled = 0
    /\ allocated = 0
    /\ inflight = {}
    /\ tasks = <<>>
    /\ ensureCalls = 0
    /\ unhandled = {}
    /\ warned = FALSE
    /\ startup = StartupDone
    /\ status = SyncedStatus
    /\ error = <<>>
    /\ QueryProcessorConstructed

\* Agent.resolve from its first line to the `Apply changes` log line.
ComputePlan ==
    /\ pc = "resolve"
    /\ LET plan == Plan(epoch, maxEpochsPerAllocation, networkDeployments,
                        indexerDeployments, allocations)
       IN /\ toDeploy' = plan.toDeploy
          /\ toRemove' = plan.toRemove
          /\ toSettle' = plan.toSettle
          /\ toAllocate' = plan.toAllocate
    /\ pc' = "planned"
    /\ UNCHANGED startVars
    /\ UNCHANGED qpVars
    /\ UNCHANGED <<inputVars, execVars>>

PlanNext == ComputePlan

PlanSpec == PlanInit /\ [][PlanNext]_vars

\* ------------------------------------------------ claims about the plan

\* Agent.resolve has computed its four lists from the arguments in the state.
Planned == pc = "planned"

N == Range(networkDeployments)
L == Range(indexerDeployments)

\* The allocation (by allocation id) is in toSettle.
InToSettle(allocation) == \E j \in DOMAIN toSettle : toSettle[j].id = allocation.id

\* The deployment has an allocation in the snapshot.
HasAllocation(d) == \E j \in DOMAIN allocations : allocations[j].subgraphDeployment.id = d

\* The sequence holds no two entries with the same key.
NoDuplicates(s) == \A i, j \in DOMAIN s : s[i] = s[j] => i = j
NoDuplicateIds(s) == \A i, j \in DOMAIN s : s[i].id = s[j].id => i = j

\* C1: whatever N, L and the allocations are, the computed plan has the
\* self-tracking deployment in toDeploy and never in toAllocate.
C1_SelfDeployedNeverAllocated ==
    Planned =>
        /\ networkSubgraphDeployment \in Range(toDeploy)
        /\ networkSubgraphDeployment \notin Range(toAllocate)

\* C1 witness: a plan for a snapshot where both filters would have decided
\* otherwise: the self-tracking deployment is indexed already (so the diff
\* drops it from toDeploy) and is network-desired without an allocation (so
\* the allocation filter keeps it).
C1_Witness ==
    /\ Planned
    /\ networkSubgraphDeployment \in L
    /\ networkSubgraphDeployment \in N
    /\ ~HasAllocation(networkSubgraphDeployment)
    /\ networkSubgraphDeployment \in Range(toDeploy)

\* C2: an allocation of the snapshot is in toSettle (by id) exactly when it is
\* older than the threshold or its deployment is below both the minimum
\* signal and the minimum stake.
C2_SettleIffOldOrNotWorthIt ==
    Planned =>
        \A i \in DOMAIN allocations :
            LET A == allocations[i]
                settleBeforeEpoch == epoch - Max(1, maxEpochsPerAllocation) + 1
            IN InToSettle(A) <=>
                  \/ A.createdAtEpoch < settleBeforeEpoch
                  \/ /\ A.subgraphDeployment.signalAmount < MINIMUM_SIGNAL
                     /\ A.subgraphDeployment.stakedTokens < MINIMUM_STAKE

\* C2 witness (scenario D): at epoch 100 an allocation created at epoch 99,
\* below both thresholds, is settled, and one below the signal threshold only
\* would not be.
C2_Witness ==
    /\ Planned
    /\ epoch = 100
    /\ \E i \in DOMAIN allocations :
          /\ allocations[i].createdAtEpoch = 99
          /\ allocations[i].subgraphDeployment.signalAmount < MINIMUM_SIGNAL
          /\ allocations[i].subgraphDeployment.stakedTokens < MINIMUM_STAKE
          /\ InToSettle(allocations[i])

\* C3: as sets of deployments, toDeploy = (N minus L) plus the self-tracking
\* deployment, toRemove = L minus N, and toAllocate = the deployments of N
\* without an allocation, minus the self-tracking deployment; scenarios A and
\* B give exactly the lists the spec names.
C3_PlanIsTheDiff ==
    Planned =>
        /\ Range(toDeploy) = (N \ L) \cup {networkSubgraphDeployment}
        /\ Range(toRemove) = L \ N
        /\ Range(toAllocate) =
              {d \in N : ~HasAllocation(d)} \ {networkSubgraphDeployment}
        /\ (N = {"X", networkSubgraphDeployment} /\ L = {})
              => Range(toDeploy) = {"X", networkSubgraphDeployment} /\ toRemove = <<>>
        /\ (N = {networkSubgraphDeployment} /\ L = {"X", networkSubgraphDeployment})
              => toRemove = <<"X">> /\ toDeploy = <<networkSubgraphDeployment>>

\* C3 witness (scenario B): N = {SELF}, L = {X, SELF} has been planned.
C3_Witness ==
    /\ Planned
    /\ networkDeployments = <<networkSubgraphDeployment>>
    /\ indexerDeployments = <<"X", networkSubgraphDeployment>>
    /\ toRemove = <<"X">>
    /\ toDeploy = <<networkSubgraphDeployment>>

C5_NoDuplicates ==
    Planned =>
        /\ NoDuplicates(toDeploy)
        /\ NoDuplicates(toRemove)
        /\ NoDuplicates(toAllocate)
        /\ NoDuplicateIds(toSettle)

\* C5 witness: N, L and the allocation list each hold the same entry twice,
\* and each entry shows up once in the plan.
C5_Witness ==
    /\ Planned
    /\ networkDeployments = <<"Y", "Y">>
    /\ indexerDeployments = <<"X", "X">>
    /\ Len(allocations) = 2 /\ allocations[1] = allocations[2]
    /\ toDeploy = <<"Y", networkSubgraphDeployment>>
    /\ toRemove = <<"X">>
    /\ toAllocate = <<"Y">>
    /\ toSettle = <<allocations[1]>>

\* C6: the threshold is epoch - max(1, maxEpochsPerAllocation) + 1, a
\* maxEpochsPerAllocation of 0 plans what 1 plans, and age alone selects an
\* allocation exactly when epoch - createdAtEpoch >= max(1,
\* maxEpochsPerAllocation), so never in its creation epoch; at epoch 100 with
\* maxEpochsPerAllocation 28 the threshold is 73 and an allocation created at
\* epoch 50 is settled.
C6_SettlementAgeThreshold ==
    Planned =>
        LET lifetime == IF maxEpochsPerAllocation >= 1 THEN maxEpochsPerAllocation ELSE 1
            worthIt(A) == \/ A.subgraphDeployment.signalAmount >= MINIMUM_SIGNAL
                          \/ A.subgraphDeployment.stakedTokens >= MINIMUM_STAKE
        IN /\ settleAllocationsBeforeEpoch(epoch, maxEpochsPerAllocation)
                 = epoch - lifetime + 1
           /\ \A i \in DOMAIN allocations :
                 worthIt(allocations[i]) =>
                    /\ InToSettle(allocations[i])
                          <=> epoch - allocations[i].createdAtEpoch >= lifetime
                    /\ allocations[i].createdAtEpoch = epoch
                          => ~InToSettle(allocations[i])
           /\ maxEpochsPerAllocation = 0 =>
                 toSettle = Plan(epoch, 1, networkDeployments, indexerDeployments,
                                 allocations).toSettle
           /\ (epoch = 100 /\ maxEpochsPerAllocation = 28) =>
                 /\ settleAllocationsBeforeEpoch(epoch, maxEpochsPerAllocation) = 73
                 /\ \A i \in DOMAIN allocations :
                       allocations[i].createdAtEpoch = 50 => InToSettle(allocations[i])

\* C6 witness (scenario C): epoch 100, maxEpochsPerAllocation 28, and an
\* allocation created at epoch 50 on a deployment above both thresholds is
\* settled by its age.
C6_Witness ==
    /\ Planned
    /\ epoch = 100
    /\ maxEpochsPerAllocation = 28
    /\ \E i \in DOMAIN allocations :
          /\ allocations[i].createdAtEpoch = 50
          /\ allocations[i].subgraphDeployment.signalAmount >= MINIMUM_SIGNAL
          /\ allocations[i].subgraphDeployment.stakedTokens >= MINIMUM_STAKE
          /\ InToSettle(allocations[i])

\* ---------------------------------------------------- the tick's PQueue

\* Entries of the queue that have started and not finished: a deploy task
\* sleeping in delay(2000), a remove task awaiting indexer.remove.
Running(ts) == {i \in DOMAIN ts : ts[i].state \in {"delay", "removing"}}

Queued(ts) == {i \in DOMAIN ts : ts[i].state = "queued"}

Finished(ts) == {i \in DOMAIN ts : ts[i].state \in {"done", "failed"}}

\* What a task does from its start to its first await: a deploy task calls
\* indexer.ensure without awaiting it and sleeps; a remove task calls
\* indexer.remove and awaits it.
Started(task) ==
    [task EXCEPT !.state = IF task.kind = "deploy" THEN "delay" ELSE "removing"]

\* Mutant: the queue starts every entry as it is added, whatever is running.
StartQueuedUnbounded(ts) ==
    [i \in DOMAIN ts |-> IF ts[i].state = "queued" THEN Started(ts[i]) ELSE ts[i]]

\* PQueue's _tryToStartAnother, repeated: queued entries start, in submission
\* order, while fewer than Concurrency are running.
RECURSIVE StartQueued(_)
StartQueued(ts) ==
    IF Queued(ts) # {} /\ Cardinality(Running(ts)) < Concurrency
    THEN LET i == FirstIndex(Queued(ts))
         IN StartQueued([ts EXCEPT ![i] = Started(ts[i])])
    ELSE ts

\* The indexer.ensure calls that starting tasks has issued.
EnsuresIssued(before, after) ==
    Cardinality({i \in DOMAIN after : /\ after[i].kind = "deploy"
                                      /\ before[i].state = "queued"
                                      /\ after[i].state = "delay"})

\* The unsettled ensure calls still followed when a tick has ended: the calls
\* a tick issues are counted one by one, and of those it leaves unsettled at
\* most MaxEnsureCalls are followed further, so that ensureCalls never exceeds
\* the number of calls started and not returned.
AtMost(n) == IF n > MaxEnsureCalls THEN MaxEnsureCalls ELSE n

\* The for loops over toDeploy and toRemove: one queue.add per entry.
Submitted(deploy, remove) ==
    [i \in 1..Len(deploy) |-> [kind |-> "deploy", deployment |-> deploy[i], state |-> "queued"]]
    \o [i \in 1..Len(remove) |-> [kind |-> "remove", deployment |-> remove[i], state |-> "queued"]]

\* ------------------------------------------------- Agent.start: startup

\* What a tick's collaborators return: epoch and chain parameters, the
\* deployments worth indexing (each named once; the network subgraph may name
\* the network subgraph deployment itself, which the tick then pushes a second
\* time), the deployments indexed (none or one), the active allocations.
GatherSnapshots ==
    [epoch : {MaxEpoch},
     maxEpochsPerAllocation : {1},
     networkSubgraphs : {n \in SeqsUpTo({"X", "Y"}, MaxGathered) : NoDuplicates(n)}
                        \cup {<<networkSubgraphDeployment>>},
     indexerDeployments : {<<>>} \cup {<<deployment>> : deployment \in Deployments},
     allocations : {a \in SeqsUpTo(
                        AllocationRecords(AllocationIds, {"X"}, {MaxEpoch},
                                          {MINIMUM_SIGNAL}, {MINIMUM_STAKE})
                        \cup AllocationRecords(AllocationIds, {"X"}, {MaxEpoch},
                                          {MINIMUM_SIGNAL - 1}, {MINIMUM_STAKE - 1}),
                        MaxGathered) : IdsAreKeys(a)}]

\* The agent has been constructed; start() has not run yet.
Init ==
    /\ pc = "connect"
    /\ epoch = 0
    /\ maxEpochsPerAllocation = 0
    /\ networkDeployments = <<>>
    /\ indexerDeployments = <<>>
    /\ allocations = <<>>
    /\ toDeploy = <<>>
    /\ toRemove = <<>>
    /\ toSettle = <<>>
    /\ toAllocate = <<>>
    /\ settled = 0
    /\ allocated = 0
    /\ inflight = {}
    /\ tasks = <<>>
    /\ ensureCalls = 0
    /\ unhandled = {}
    /\ warned = FALSE
    /\ startup = <<>>
    /\ status = NoStatus
    /\ error = <<>>
    /\ QueryProcessorConstructed

\* The log after a call of `step` that ended `how`: the polls of the sync loop
\* share one entry, which tells how the last one ended.
Logged(log, step, how) ==
    IF log # <<>> /\ log[Len(log)][1] = step
    THEN [log EXCEPT ![Len(log)] = <<step, how>>]
    ELSE Append(log, <<step, how>>)

\* The error a rejecting collaborator call makes start() reject with.
Thrown(step) == <<step, " failed">>

\* Mutant: the startup calls are not awaited, so start() goes on whether the
\* call succeeds or not.
StartupStepNotAwaited(at, next) ==
    /\ pc = at
    /\ \E ok \in BOOLEAN :
          startup' = Logged(startup, at, IF ok THEN "returned" ELSE "threw")
    /\ pc' = next
    /\ UNCHANGED <<status, error, inputVars, planVars, execVars, qpVars>>

\* One awaited step of start() before the loops: it returns and start() goes
\* on, or it throws and start() rejects.
StartupStep(at, next) ==
    /\ pc = at
    /\ \E ok \in BOOLEAN :
          /\ pc' = IF ok THEN next ELSE "rejected"
          /\ startup' = Logged(startup, at, IF ok THEN "returned" ELSE "threw")
          /\ error' = IF ok THEN error ELSE Thrown(at)
    /\ UNCHANGED <<status, inputVars, planVars, execVars, qpVars>>

\* await this.indexer.connect()
Connect == StartupStep("connect", "register")

\* await this.network.register()
Register == StartupStep("register", "ensureMinimumStake")

\* await this.network.ensureMinimumStake(parseGRT('1000'))
EnsureMinimumStake == StartupStep("ensureMinimumStake", "ensure")

\* await this.indexer.ensure(name, this.networkSubgraphDeployment)
EnsureNetworkSubgraph == StartupStep("ensure", "indexingStatus")

\* What indexer.indexingStatus reports of the network subgraph deployment: its
\* health, whether it is synced, and the fatal error of one that has failed
\* ("undefined" when the status has none).
StatusReports ==
    {report \in [health : {"healthy", "unhealthy", "failed"},
                 synced : BOOLEAN,
                 fatalError : {"undefined", "X"}] :
        report.health = "healthy" => report.fatalError = "undefined"}

\* The error the sync loop throws for a status that is not healthy: the
\* template literal of the Error, whose last part is status.fatalError.message;
\* reading .message of a missing fatalError throws a TypeError instead.
FailedToIndex(report) ==
    IF report.fatalError = "undefined"
    THEN <<"TypeError: Cannot read property 'message' of undefined">>
    ELSE <<"Failed to index network subgraph deployment '",
           networkSubgraphDeployment, "': ", report.fatalError>>

\* Mutant: the sync loop looks at status.synced before status.health.
IndexingStatusSyncedFirst ==
    /\ pc = "indexingStatus"
    /\ \/ /\ pc' = "rejected"
          /\ status' = NoStatus
          /\ startup' = Logged(startup, "indexingStatus", "threw")
          /\ error' = Thrown("indexingStatus")
       \/ \E report \in StatusReports :
             /\ status' = report
             /\ IF report.synced
                THEN /\ pc' = "gather"
                     /\ startup' = Logged(startup, "indexingStatus", "returned")
                     /\ error' = error
                ELSE IF report.health # "healthy"
                THEN /\ pc' = "rejected"
                     /\ startup' = Logged(startup, "indexingStatus", "threw")
                     /\ error' = FailedToIndex(report)
                ELSE /\ pc' = "syncDelay"
                     /\ startup' = Logged(startup, "indexingStatus", "returned")
                     /\ error' = error
    /\ UNCHANGED <<inputVars, planVars, execVars, qpVars>>

\* One iteration of the sync loop: indexingStatus throws, or reports a status;
\* a status that is not healthy throws, a synced one ends the loop (and the
\* first tick of the steady-state loop is called), any other sleeps before the
\* next poll.
IndexingStatus ==
    /\ pc = "indexingStatus"
    /\ \/ /\ pc' = "rejected"
          /\ status' = NoStatus
          /\ startup' = Logged(startup, "indexingStatus", "threw")
          /\ error' = Thrown("indexingStatus")
       \/ \E report \in StatusReports :
             /\ status' = report
             /\ IF report.health # "healthy"
                THEN /\ pc' = "rejected"
                     /\ startup' = Logged(startup, "indexingStatus", "threw")
                     /\ error' = FailedToIndex(report)
                ELSE /\ pc' = IF report.synced THEN "gather" ELSE "syncDelay"
                     /\ startup' = Logged(startup, "indexingStatus", "returned")
                     /\ error' = error
    /\ UNCHANGED <<inputVars, planVars, execVars, qpVars>>

\* Mutant: loop() leaves the sync loop when its body returns true.
SyncDelayLeavesLoop ==
    /\ pc = "syncDelay"
    /\ pc' = "gather"
    /\ UNCHANGED <<inputVars, planVars, execVars, startVars, qpVars>>

\* await delay(5000) of the sync loop
SyncDelay ==
    /\ pc = "syncDelay"
    /\ pc' = "indexingStatus"
    /\ UNCHANGED <<inputVars, planVars, execVars, startVars, qpVars>>

\* ------------------------------------------- Agent.start: one tick's gather

\* Mutant: the tick passes the network-desired list to resolve as the network
\* subgraph returned it, without pushing the network subgraph deployment.
GatherWithoutPush ==
    /\ pc = "gather"
    /\ \E snapshot \in GatherSnapshots :
          /\ epoch' = snapshot.epoch
          /\ maxEpochsPerAllocation' = snapshot.maxEpochsPerAllocation
          /\ networkDeployments' = snapshot.networkSubgraphs
          /\ indexerDeployments' = snapshot.indexerDeployments
          /\ allocations' = snapshot.allocations
          /\ LET plan == Plan(snapshot.epoch, snapshot.maxEpochsPerAllocation,
                              snapshot.networkSubgraphs,
                              snapshot.indexerDeployments, snapshot.allocations)
             IN /\ toDeploy' = plan.toDeploy
                /\ toRemove' = plan.toRemove
                /\ toSettle' = plan.toSettle
                /\ toAllocate' = plan.toAllocate
    /\ pc' = "apply"
    /\ UNCHANGED startVars
    /\ UNCHANGED qpVars
    /\ UNCHANGED execVars

\* The reads of a tick return, the network subgraph deployment is pushed onto
\* the network-desired list and resolve computes its plan.
Gather ==
    /\ pc = "gather"
    /\ \E snapshot \in GatherSnapshots :
          /\ epoch' = snapshot.epoch
          /\ maxEpochsPerAllocation' = snapshot.maxEpochsPerAllocation
          /\ networkDeployments' =
                Append(snapshot.networkSubgraphs, networkSubgraphDeployment)
          /\ indexerDeployments' = snapshot.indexerDeployments
          /\ allocations' = snapshot.allocations
          /\ LET plan == Plan(snapshot.epoch, snapshot.maxEpochsPerAllocation,
                              Append(snapshot.networkSubgraphs, networkSubgraphDeployment),
                              snapshot.indexerDeployments, snapshot.allocations)
             IN /\ toDeploy' = plan.toDeploy
                /\ toRemove' = plan.toRemove
                /\ toSettle' = plan.toSettle
                /\ toAllocate' = plan.toAllocate
    /\ pc' = "apply"
    /\ UNCHANGED startVars
    /\ UNCHANGED qpVars
    /\ UNCHANGED execVars

\* The tick's catch block: the warning is logged, the tick returns true and
\* the loop sleeps.
Caught ==
    /\ warned' = TRUE
    /\ pc' = "delay"

\* One of the tick's reads throws: resolve is not called.
GatherThrow ==
    /\ pc = "gather"
    /\ Caught
    /\ UNCHANGED startVars
    /\ UNCHANGED qpVars
    /\ UNCHANGED <<inputVars, planVars, settled, allocated, inflight, tasks,
                   ensureCalls, unhandled>>

\* ----------------------------------------- Agent.resolve: applying the plan

\* Mutant: settle is called without being awaited, the loop moves on at once.
SettleCallNotAwaited ==
    /\ pc = "apply"
    /\ settled < Len(toSettle)
    /\ inflight' = inflight \cup {<<"settle", toSettle[settled + 1].id>>}
    /\ settled' = settled + 1
    /\ UNCHANGED startVars
    /\ UNCHANGED qpVars
    /\ UNCHANGED <<pc, inputVars, planVars, allocated, tasks, ensureCalls,
                   unhandled, warned>>

\* for (const allocation of toSettle) { await this.network.settle(allocation)
SettleCall ==
    /\ pc = "apply"
    /\ settled < Len(toSettle)
    /\ inflight' = inflight \cup {<<"settle", toSettle[settled + 1].id>>}
    /\ pc' = "awaitSettle"
    /\ UNCHANGED startVars
    /\ UNCHANGED qpVars
    /\ UNCHANGED <<inputVars, planVars, settled, allocated, tasks, ensureCalls,
                   unhandled, warned>>

\* network.settle returns: the loop goes on to its next entry.
SettleReturn ==
    /\ pc = "awaitSettle"
    /\ inflight' = {}
    /\ settled' = settled + 1
    /\ pc' = "apply"
    /\ UNCHANGED startVars
    /\ UNCHANGED qpVars
    /\ UNCHANGED <<inputVars, planVars, allocated, tasks, ensureCalls, unhandled, warned>>

\* Mutant: no try/catch around the tick, so the error rejects start().
SettleThrowUncaught ==
    /\ pc = "awaitSettle"
    /\ inflight' = {}
    /\ pc' = "rejected"
    /\ UNCHANGED startVars
    /\ UNCHANGED qpVars
    /\ UNCHANGED <<inputVars, planVars, settled, allocated, tasks, ensureCalls,
                   unhandled, warned>>

\* network.settle throws: resolve rejects into the tick's catch block.
SettleThrow ==
    /\ pc = "awaitSettle"
    /\ inflight' = {}
    /\ Caught
    /\ UNCHANGED startVars
    /\ UNCHANGED qpVars
    /\ UNCHANGED <<inputVars, planVars, settled, allocated, tasks, ensureCalls, unhandled>>

\* for (const deployment of toAllocate) { await this.network.allocate(deployment)
AllocateCall ==
    /\ pc = "apply"
    /\ settled = Len(toSettle)
    /\ allocated < Len(toAllocate)
    /\ inflight' = inflight \cup {<<"allocate", toAllocate[allocated + 1]>>}
    /\ pc' = "awaitAllocate"
    /\ UNCHANGED startVars
    /\ UNCHANGED qpVars
    /\ UNCHANGED <<inputVars, planVars, settled, allocated, tasks, ensureCalls,
                   unhandled, warned>>

\* network.allocate returns: the loop goes on to its next entry.
AllocateReturn ==
    /\ pc = "awaitAllocate"
    /\ inflight' = {}
    /\ allocated' = allocated + 1
    /\ pc' = "apply"
    /\ UNCHANGED startVars
    /\ UNCHANGED qpVars
    /\ UNCHANGED <<inputVars, planVars, settled, tasks, ensureCalls, unhandled, warned>>

\* Mutant: the allocate loop catches the error of each call, logs it and goes
\* on to its next entry.
AllocateThrowSkipsEntry ==
    /\ pc = "awaitAllocate"
    /\ inflight' = {}
    /\ allocated' = allocated + 1
    /\ warned' = TRUE
    /\ pc' = "apply"
    /\ UNCHANGED startVars
    /\ UNCHANGED qpVars
    /\ UNCHANGED <<inputVars, planVars, settled, tasks, ensureCalls, unhandled>>

\* network.allocate throws: resolve rejects into the tick's catch block.
AllocateThrow ==
    /\ pc = "awaitAllocate"
    /\ inflight' = {}
    /\ Caught
    /\ UNCHANGED startVars
    /\ UNCHANGED qpVars
    /\ UNCHANGED <<inputVars, planVars, settled, allocated, tasks, ensureCalls, unhandled>>

\* new PQueue, the two for loops of queue.add (each add starts its task when
\* a slot is free) and the call of queue.onIdle(), which resolve awaits.
Submit ==
    /\ pc = "apply"
    /\ settled = Len(toSettle)
    /\ allocated = Len(toAllocate)
    /\ LET added == Submitted(toDeploy, toRemove)
           started == StartQueued(added)
       IN /\ tasks' = started
          /\ ensureCalls' = ensureCalls + EnsuresIssued(added, started)
    /\ pc' = "onIdle"
    /\ UNCHANGED startVars
    /\ UNCHANGED qpVars
    /\ UNCHANGED <<inputVars, planVars, settled, allocated, inflight, unhandled, warned>>

\* A task has finished (state `how`): PQueue's _next starts a queued entry.
TaskFinished(t, how) ==
    LET finished == [tasks EXCEPT ![t].state = how]
        started == StartQueued(finished)
    IN /\ tasks' = started
       /\ ensureCalls' = ensureCalls + EnsuresIssued(finished, started)

\* Mutant: the deploy task awaits indexer.ensure before it sleeps, so it
\* returns only when the ensure calls have settled.
DeployTaskAwaitsEnsure(t) ==
    /\ tasks[t].state = "delay"
    /\ ensureCalls = 0
    /\ TaskFinished(t, "done")
    /\ UNCHANGED startVars
    /\ UNCHANGED qpVars
    /\ UNCHANGED <<pc, inputVars, planVars, settled, allocated, inflight, unhandled, warned>>

\* A deploy task's delay(2000) is over: the task returns.
DeployTaskDone(t) ==
    /\ tasks[t].state = "delay"
    /\ TaskFinished(t, "done")
    /\ UNCHANGED startVars
    /\ UNCHANGED qpVars
    /\ UNCHANGED <<pc, inputVars, planVars, settled, allocated, inflight, unhandled, warned>>

\* A remove task's indexer.remove returns: the task returns.
RemoveReturn(t) ==
    /\ tasks[t].state = "removing"
    /\ TaskFinished(t, "done")
    /\ UNCHANGED startVars
    /\ UNCHANGED qpVars
    /\ UNCHANGED <<pc, inputVars, planVars, settled, allocated, inflight, unhandled, warned>>

\* Mutant: resolve awaits the promises queue.add returns, so a failing task
\* rejects resolve into the tick's catch block while its siblings still run.
RemoveThrowAbortsTick(t) ==
    /\ tasks[t].state = "removing"
    /\ TaskFinished(t, "failed")
    /\ Caught
    /\ UNCHANGED startVars
    /\ UNCHANGED qpVars
    /\ UNCHANGED <<inputVars, planVars, settled, allocated, inflight, unhandled>>

\* A remove task's indexer.remove throws: the task has no try/catch, so the
\* promise queue.add returned rejects, and nothing handles that promise.
RemoveThrow(t) ==
    /\ tasks[t].state = "removing"
    /\ TaskFinished(t, "failed")
    /\ unhandled' = unhandled \cup {"remove"}
    /\ UNCHANGED startVars
    /\ UNCHANGED qpVars
    /\ UNCHANGED <<pc, inputVars, planVars, settled, allocated, inflight, warned>>

\* An indexer.ensure call issued by a deploy task resolves; nothing awaits it.
EnsureResolve ==
    /\ ensureCalls > 0
    /\ ensureCalls' = ensureCalls - 1
    /\ UNCHANGED startVars
    /\ UNCHANGED qpVars
    /\ UNCHANGED <<pc, inputVars, planVars, settled, allocated, inflight, tasks,
                   unhandled, warned>>

\* An indexer.ensure call issued by a deploy task rejects: the call was not
\* awaited and has no catch, so nothing handles the rejection.
EnsureReject ==
    /\ ensureCalls > 0
    /\ ensureCalls' = ensureCalls - 1
    /\ unhandled' = unhandled \cup {"ensure"}
    /\ UNCHANGED startVars
    /\ UNCHANGED qpVars
    /\ UNCHANGED <<pc, inputVars, planVars, settled, allocated, inflight, tasks, warned>>

\* Mutant: resolve does not await queue.onIdle(): the tick returns while
\* tasks are queued or running.
OnIdleNotAwaited ==
    /\ pc = "onIdle"
    /\ pc' = "delay"
    /\ UNCHANGED startVars
    /\ UNCHANGED qpVars
    /\ UNCHANGED <<inputVars, planVars, execVars>>

\* queue.onIdle() resolves once nothing is queued or running: resolve returns,
\* the tick returns true and the loop sleeps.
OnIdle ==
    /\ pc = "onIdle"
    /\ Finished(tasks) = DOMAIN tasks
    /\ pc' = "delay"
    /\ UNCHANGED startVars
    /\ UNCHANGED qpVars
    /\ UNCHANGED <<inputVars, planVars, execVars>>

\* await delay(5000) of the steady-state loop is over: the next tick is called.
\* The finished tick's locals (snapshot, plan, queue) are gone.
Delay ==
    /\ pc = "delay"
    /\ pc' = "gather"
    /\ epoch' = 0
    /\ maxEpochsPerAllocation' = 0
    /\ networkDeployments' = <<>>
    /\ indexerDeployments' = <<>>
    /\ allocations' = <<>>
    /\ toDeploy' = <<>>
    /\ toRemove' = <<>>
    /\ toSettle' = <<>>
    /\ toAllocate' = <<>>
    /\ settled' = 0
    /\ allocated' = 0
    /\ tasks' = <<>>
    /\ unhandled' = {}
    /\ warned' = FALSE
    /\ ensureCalls' = AtMost(ensureCalls)
    /\ UNCHANGED startVars
    /\ UNCHANGED qpVars
    /\ UNCHANGED inflight

Next ==
    \/ Connect
    \/ Register
    \/ EnsureMinimumStake
    \/ EnsureNetworkSubgraph
    \/ IndexingStatus
    \/ SyncDelay
    \/ Gather
    \/ GatherThrow
    \/ SettleCall
    \/ SettleReturn
    \/ SettleThrow
    \/ AllocateCall
    \/ AllocateReturn
    \/ AllocateThrow
    \/ Submit
    \/ \E t \in DOMAIN tasks : DeployTaskDone(t)
    \/ \E t \in DOMAIN tasks : RemoveReturn(t)
    \/ \E t \in DOMAIN tasks : RemoveThrow(t)
    \/ EnsureResolve
    \/ EnsureReject
    \/ OnIdle
    \/ Delay

Spec == Init /\ [][Next]_vars

\* What the runtime's scheduling gives: the timers of delay() fire (in the sync
\* loop, the steady-state loop and the deploy tasks) and the continuation of a
\* resolved onIdle() runs; and what a tick's completion
\* presupposes of the indexing node: an indexer.remove call that was started
\* returns or throws.
FairSpec ==
    /\ Spec
    /\ WF_vars(SyncDelay)
    /\ WF_vars(Delay)
    /\ WF_vars(OnIdle)
    /\ WF_vars(\E t \in DOMAIN tasks : DeployTaskDone(t))
    /\ WF_vars(\E t \in DOMAIN tasks : RemoveReturn(t) \/ RemoveThrow(t))

\* ------------------------------ a tick with more tasks than the queue runs

DeploymentNames ==
    <<"D01", "D02", "D03", "D04", "D05", "D06", "D07", "D08", "D09", "D10",
      "D11", "D12", "D13", "D14">>

\* The snapshot of a tick in which the network subgraph names MaxQueued
\* deployments worth indexing, none of them indexed or allocated to yet, and the
\* indexing node indexes one deployment that is no longer worth it.
QueueSnapshot ==
    [epoch |-> MaxEpoch,
     maxEpochsPerAllocation |-> 1,
     networkSubgraphs |-> SubSeq(DeploymentNames, 1, MaxQueued),
     indexerDeployments |-> <<"X">>,
     allocations |-> <<>>]

\* That tick at the line `const queue = new PQueue(...)`: the plan is computed,
\* the settle loop and the allocate loop have run to their ends.
QueueInit ==
    /\ pc = "apply"
    /\ epoch = QueueSnapshot.epoch
    /\ maxEpochsPerAllocation = QueueSnapshot.maxEpochsPerAllocation
    /\ networkDeployments =
          Append(QueueSnapshot.networkSubgraphs, networkSubgraphDeployment)
    /\ indexerDeployments = QueueSnapshot.indexerDeployments
    /\ allocations = QueueSnapshot.allocations
    /\ LET plan == Plan(QueueSnapshot.epoch, QueueSnapshot.maxEpochsPerAllocation,
                        Append(QueueSnapshot.networkSubgraphs, networkSubgraphDeployment),
                        QueueSnapshot.indexerDeployments, QueueSnapshot.allocations)
       IN /\ toDeploy = plan.toDeploy
          /\ toRemove = plan.toRemove
          /\ toSettle = plan.toSettle
          /\ toAllocate = plan.toAllocate
          /\ settled = Len(plan.toSettle)
          /\ allocated = Len(plan.toAllocate)
    /\ inflight = {}
    /\ tasks = <<>>
    /\ ensureCalls = 0
    /\ unhandled = {}
    /\ warned = FALSE
    /\ startup = StartupDone
    /\ status = SyncedStatus
    /\ error = <<>>
    /\ QueryProcessorConstructed

\* The rest of that tick: the queue, up to the return of queue.onIdle().
QueueNext ==
    \/ Submit
    \/ \E t \in DOMAIN tasks : DeployTaskDone(t)
    \/ \E t \in DOMAIN tasks : RemoveReturn(t)
    \/ \E t \in DOMAIN tasks : RemoveThrow(t)
    \/ EnsureResolve
    \/ EnsureReject
    \/ OnIdle

QueueSpec == QueueInit /\ [][QueueNext]_vars

\* ------------------------------------- claims about a tick's side effects

\* The positions of the steady-state loop.
LoopPositions == {"gather", "apply", "awaitSettle", "awaitAllocate", "onIdle", "delay"}

SettleInFlight == \E call \in inflight : call[1] = "settle"
AllocateInFlight == \E call \in inflight : call[1] = "allocate"

\* A queued task of the tick has failed.
SomeTaskFailed == \E t \in DOMAIN tasks : tasks[t].state = "failed"

\* The tick's drain has returned: every task submitted has finished and the
\* loop sleeps without the tick's catch block having run.
Drained ==
    /\ pc = "delay"
    /\ ~warned
    /\ tasks # <<>>
    /\ Finished(tasks) = DOMAIN tasks

\* C7: within a tick at most one settle or allocate call is in flight, an
\* allocate call starts only when every settle call of the plan has
\* returned, and tasks are submitted to the queue only when every allocate
\* call of the plan has returned.
C7_SettleThenAllocateThenDeploy ==
    /\ Cardinality(inflight) <= 1
    /\ (AllocateInFlight \/ allocated > 0) =>
          /\ settled = Len(toSettle)
          /\ ~SettleInFlight
    /\ tasks # <<>> =>
          /\ settled = Len(toSettle)
          /\ allocated = Len(toAllocate)
          /\ inflight = {}

\* C7 witness: a tick that has settled two allocations, then allocated, and
\* has then submitted a deploy and a remove task.
C7_Witness ==
    /\ pc = "onIdle"
    /\ Len(toSettle) = 2 /\ settled = 2
    /\ Len(toAllocate) >= 1 /\ allocated = Len(toAllocate)
    /\ \E t \in DOMAIN tasks : tasks[t].kind = "deploy"
    /\ \E t \in DOMAIN tasks : tasks[t].kind = "remove"

\* C8: once the steady-state loop runs it never leaves its positions, a tick
\* whose gather, settle or allocate failed has logged its warning and sleeps,
\* and the next tick is then eventually started.
C8_FailedTickIsCaught ==
    /\ [][(pc \in LoopPositions) => (pc' \in LoopPositions)]_vars
    /\ [](warned => pc = "delay")
    /\ warned ~> (pc = "gather")

\* C8 witness: a tick has failed in its second settle call, after the first
\* one went through, and the loop sleeps.
C8_Witness ==
    /\ warned
    /\ pc = "delay"
    /\ settled = 1
    /\ Len(toSettle) = 2

\* C9: when a queued task has failed, the tick's catch block has not run and
\* does not run, and the tick goes on to its drain returning with every task
\* of the tick finished, each sibling of the failed task done.
C9_TaskFailureIsIsolated ==
    /\ [](SomeTaskFailed => (~warned /\ pc \in {"onIdle", "delay"}))
    /\ [](Drained => \A t \in DOMAIN tasks :
                        tasks[t].kind = "deploy" => tasks[t].state = "done")
    /\ SomeTaskFailed ~> Drained

\* C9 witness: the drain has returned in a tick whose remove task failed and
\* whose deploy tasks, two or more, are done.
C9_Witness ==
    /\ Drained
    /\ SomeTaskFailed
    /\ Cardinality({t \in DOMAIN tasks : tasks[t].state = "done"}) >= 2

\* C10 as stated: no error of an indexer.ensure or indexer.remove call issued
\* from a queued task escapes the task unhandled.
C10_Original == unhandled = {}

\* ------------------------------------------- claims about the tick's queue

\* A task that was waiting in the queue starts in this step.
StartsNow(t) ==
    /\ t \in DOMAIN tasks'
    /\ tasks[t].state = "queued"
    /\ tasks'[t].state # "queued"

\* A task that was running finishes in this step.
SomeRunningTaskFinishes ==
    \E u \in Running(tasks) : u \in DOMAIN tasks' /\ u \in Finished(tasks')

\* C11: at every moment at most Concurrency (10) tasks of the tick's queue
\* are executing, and a task that had to wait in the queue starts only in a
\* step in which a running task finishes, also when the plan has more
\* entries than the queue runs at once.
C11_AtMostConcurrencyRunning ==
    /\ [](Cardinality(Running(tasks)) <= Concurrency)
    /\ [][\A t \in DOMAIN tasks : StartsNow(t) => SomeRunningTaskFinishes]_vars

\* The plan has more entries than slots: Concurrency tasks are running, one
\* has finished and let a waiting task start, and one is still waiting.
C11_Witness ==
    /\ Len(toDeploy) + Len(toRemove) > Concurrency
    /\ Cardinality(Running(tasks)) = Concurrency
    /\ Finished(tasks) # {}
    /\ Queued(tasks) # {}

\* Nothing of the current tick is running: no settle or allocate call is in
\* flight and no task of the tick's queue is waiting or executing.
TickAtRest ==
    /\ inflight = {}
    /\ Running(tasks) = {}
    /\ Queued(tasks) = {}

\* C12: ticks are strictly serialized. The drain (queue.onIdle) returns only
\* when every task submitted to the tick's queue has finished; while the loop
\* sleeps between ticks nothing of the finished tick is running; and the
\* step that starts the next tick's gather is taken only from such a state.
C12_TicksAreSerialized ==
    /\ [][(pc = "onIdle" /\ pc' # "onIdle") => (Finished(tasks) = DOMAIN tasks)]_vars
    /\ [](pc \in {"delay", "gather"} => TickAtRest)
    /\ [][(pc # "gather" /\ pc' = "gather") => TickAtRest]_vars

\* A tick that settled, allocated and ran several tasks has drained.
C12_Witness ==
    /\ Drained
    /\ Len(tasks) >= 2
    /\ settled >= 1
    /\ allocated >= 1

\* --------------------------------------------------- claims about startup

\* A startup call has thrown.
StartupFailed == \E i \in DOMAIN startup : startup[i][2] = "threw"

\* C13: startup is strictly sequential. The startup calls are made in the
\* order connect, register, ensureMinimumStake, ensure of the network subgraph
\* deployment, indexingStatus polls; a call is made only when every earlier
\* one has returned; once a call has thrown no further call is made and the
\* steady-state loop is never entered; and the loop's first gather happens only
\* after a poll that reported the deployment healthy and synced.
C13_StartupIsSequential ==
    /\ [](/\ Len(startup) <= Len(StartupOrder)
          /\ \A i \in DOMAIN startup :
                /\ startup[i][1] = StartupOrder[i]
                /\ i < Len(startup) => startup[i][2] = "returned")
    /\ [][StartupFailed => (startup' = startup /\ pc' = "rejected")]_vars
    /\ [](pc \in LoopPositions =>
            /\ startup = StartupDone
            /\ status.health = "healthy"
            /\ status.synced)

\* Every startup call has returned, the last poll reported healthy and synced,
\* and the steady-state loop is at its first gather.
C13_Witness ==
    /\ pc = "gather"
    /\ startup = StartupDone
    /\ status = SyncedStatus
    /\ ensureCalls = 0
    /\ epoch = 0

\* The last poll of the sync loop reported a status that is not healthy.
Unhealthy == status.health \notin {"none", "healthy"}

\* C14: a poll whose status is not healthy makes start() reject, whether or
\* not the status says synced, and start() never comes to the steady-state loop
\* afterwards; when the status carries a fatal error, its text is part of the
\* message of the error start() rejects with.
C14_UnhealthyIsFatal ==
    /\ [](Unhealthy =>
            /\ pc = "rejected"
            /\ error # <<>>
            /\ status.fatalError # "undefined" => status.fatalError \in Range(error))
    /\ [][(pc = "rejected") => (pc' = "rejected")]_vars

\* A poll has reported failed, synced and the fatal error "X": start() has
\* rejected with an error whose message contains "X".
C14_Witness ==
    /\ status = [health |-> "failed", synced |-> TRUE, fatalError |-> "X"]
    /\ pc = "rejected"
    /\ "X" \in Range(error)

\* The last poll of the sync loop reported healthy and not synced.
StillSyncing == status.health = "healthy" /\ ~status.synced

\* C15: a poll that reports healthy and not synced never ends the sync loop:
\* start() sleeps and then polls again, however many polls came before; the
\* poll that reports healthy and synced takes start() to the first tick of the
\* steady-state loop, and from there no sync poll is made again.
C15_PollsUntilSynced ==
    /\ [][(pc = "indexingStatus" /\ StillSyncing') => (pc' = "syncDelay")]_vars
    /\ [][(pc = "syncDelay") => (pc' = "indexingStatus")]_vars
    /\ (pc = "syncDelay") ~> (pc = "indexingStatus")
    /\ [][(pc = "indexingStatus" /\ status' = SyncedStatus) => (pc' = "gather")]_vars
    /\ [](status = SyncedStatus => pc \in LoopPositions)
    /\ [][(pc \in LoopPositions) =>
            (pc' \notin {"indexingStatus", "syncDelay"} /\ UNCHANGED startVars)]_vars

\* A poll reported healthy and not synced, the interval has passed and the
\* next poll is due.
C15_Witness ==
    /\ pc = "indexingStatus"
    /\ StillSyncing
    /\ error = <<>>

\* --------------------------------------- claims about the deploy tasks

\* C16: deploy tasks do not wait for indexer.ensure. Whether or not the ensure
\* calls they issued ever return, every deploy task that holds a slot gives it
\* up (its delay ends), the tick's drain returns and the next tick starts.
C16_DeployIsFireAndForget ==
    /\ (\E t \in DOMAIN tasks : tasks[t].state = "delay")
          ~> (\A t \in DOMAIN tasks : tasks[t].state # "delay")
    /\ (pc = "onIdle") ~> (pc = "gather")

\* A tick has ended and the next one is about to gather while ensure calls
\* that the deploy tasks issued have not returned.
C16_Witness ==
    /\ pc = "gather"
    /\ ensureCalls >= 1

\* C18 as stated: at every moment the indexer.ensure calls that have been
\* started and have not returned are at most Concurrency (10).
C18_Original == ensureCalls <= Concurrency

\* ------------------------------------------ claims about a failing tick

\* The plan the current tick's snapshot gives.
PlanOfSnapshot ==
    Plan(epoch, maxEpochsPerAllocation, networkDeployments,
         indexerDeployments, allocations)

\* The tick's plan is being applied.
Applying == pc \in {"apply", "awaitSettle", "awaitAllocate", "onIdle"}

\* C19: when a call of the tick fails, nothing more of the tick's plan is
\* executed: no call is in flight, no task has been submitted, and until the
\* next tick starts the counts of settle and allocate calls made stay what they
\* were (nothing is undone, nothing is added). The next tick starts with no
\* plan and no counts, and whenever a plan is applied it is the plan of the
\* snapshot that tick gathered.
C19_FailedTickStopsAndIsNotCarriedOver ==
    /\ [](warned => (pc = "delay" /\ inflight = {} /\ tasks = <<>>))
    /\ [][(~warned /\ warned') => (settled' = settled /\ allocated' = allocated)]_vars
    /\ [][warned =>
            \/ UNCHANGED <<pc, inputVars, planVars, settled, allocated, inflight, tasks>>
            \/ /\ pc' = "gather"
               /\ planVars' = <<<<>>, <<>>, <<>>, <<>>>>
               /\ settled' = 0
               /\ allocated' = 0
               /\ tasks' = <<>>]_vars
    /\ [](Applying =>
            planVars = <<PlanOfSnapshot.toDeploy, PlanOfSnapshot.toRemove,
                         PlanOfSnapshot.toSettle, PlanOfSnapshot.toAllocate>>)

\* Every settle call of the plan has returned and the first allocate call has
\* failed: the tick has ended with the deploy entries of its plan not submitted.
C19_Witness ==
    /\ warned
    /\ settled >= 1
    /\ settled = Len(toSettle)
    /\ allocated = 0
    /\ Len(toAllocate) >= 1
    /\ Len(toDeploy) >= 1
    /\ tasks = <<>>

\* ------------------------- claims about the network subgraph deployment

\* C20: in every tick of the steady-state loop the plan names the network
\* subgraph deployment neither in toRemove nor in toAllocate, no remove task
\* of the queue is for it and no network.allocate call in flight is for it,
\* whatever the network subgraph, the indexing node and the network returned.
C20_SelfNeverRemovedNorAllocated ==
    /\ networkSubgraphDeployment \notin Range(toRemove)
    /\ networkSubgraphDeployment \notin Range(toAllocate)
    /\ \A t \in DOMAIN tasks :
          tasks[t].kind = "remove" => tasks[t].deployment # networkSubgraphDeployment
    /\ <<"allocate", networkSubgraphDeployment>> \notin inflight

\* The indexing node indexes the network subgraph deployment, the network
\* subgraph did not name it, and the tick's tasks have been submitted.
C20_Witness ==
    /\ pc = "onIdle"
    /\ indexerDeployments = <<networkSubgraphDeployment>>
    /\ networkSubgraphDeployment \notin Range(SubSeq(networkDeployments, 1, Len(networkDeployments) - 1))
    /\ tasks # <<>>

\* ----------------------------------- claims about settling and allocating

\* C21: in every computed plan no deployment of toAllocate is the deployment
\* of an allocation of toSettle: the deployment of an allocation that the tick
\* settles is not allocated to by the same tick.
C21_SettledNotReallocatedInSameTick ==
    Planned =>
        \A i \in DOMAIN toAllocate : \A j \in DOMAIN toSettle :
            toSettle[j].subgraphDeployment.id # toAllocate[i]

\* The plan settles an allocation on a network-desired deployment and also
\* allocates to some other deployment.
C21_Witness ==
    /\ Planned
    /\ \E j \in DOMAIN toSettle : toSettle[j].subgraphDeployment.id \in N
    /\ toAllocate # <<>>

\* ---------------------------- ticks under an environment that stands still

\* The market info of each deployment, which does not change: the signal and
\* the stake of "X" are under the two minimums, those of every other
\* deployment are not.
Market(deployment) ==
    IF deployment = "X"
    THEN [signalAmount |-> MINIMUM_SIGNAL - 1, stakedTokens |-> MINIMUM_STAKE - 1]
    ELSE [signalAmount |-> MINIMUM_SIGNAL, stakedTokens |-> MINIMUM_STAKE]

\* The allocation `id` on `deployment`, created at epoch `createdAt`, as the
\* network reports it.
AllocationOn(id, deployment, createdAt) ==
    [id |-> id,
     subgraphDeployment |-> [id |-> deployment,
                             signalAmount |-> Market(deployment).signalAmount,
                             stakedTokens |-> Market(deployment).stakedTokens],
     createdAtEpoch |-> createdAt]

\* The id of the allocation that network.allocate creates on a deployment.
NewAllocationId(deployment) == IF deployment = "X" THEN "aX" ELSE "aY"

\* The active allocations once network.settle has returned for each entry of
\* `settle` and network.allocate for each entry of `allocate`, at epoch e.
AllocationsAfter(allocs, settle, allocate, e) ==
    Keep(allocs, {i \in DOMAIN allocs :
                    ~(\E j \in DOMAIN settle : settle[j].id = allocs[i].id)})
    \o [i \in 1..Len(allocate) |->
           AllocationOn(NewAllocationId(allocate[i]), allocate[i], e)]

\* The deployments the indexing node indexes once indexer.ensure has returned
\* for each entry of `deploy` and indexer.remove for each entry of `remove`.
IndexedAfter(indexer, deploy, remove) ==
    Keep(indexer, {i \in DOMAIN indexer : indexer[i] \notin Range(remove)})
    \o Keep(deploy, {i \in DOMAIN deploy : deploy[i] \notin Range(indexer)})

\* What the collaborators return to the first tick that is followed.
StableSnapshots ==
    [epoch : {MaxEpoch},
     maxEpochsPerAllocation : {1},
     networkSubgraphs : {n \in SeqsUpTo({"X", "Y"}, MaxGathered) : NoDuplicates(n)},
     indexerDeployments : {<<>>} \cup {<<deployment>> : deployment \in Deployments},
     allocations : {a \in SeqsUpTo(
                        {AllocationOn(id, deployment, createdAt) :
                            id \in AllocationIds, deployment \in {"X", "Y"},
                            createdAt \in {MaxEpoch - 1, MaxEpoch}},
                        MaxGathered - 1) : IdsAreKeys(a)}]

\* The tasks of a tick's queue when queue.onIdle() has resolved and no task
\* has failed.
AllDone(ts) == [i \in DOMAIN ts |-> [ts[i] EXCEPT !.state = "done"]]

\* A tick has gathered `snapshot`, every call it made has succeeded and
\* returned, and the loop sleeps.
TickDone(snapshot) ==
    LET network == Append(snapshot.networkSubgraphs, networkSubgraphDeployment)
        plan == Plan(snapshot.epoch, snapshot.maxEpochsPerAllocation, network,
                     snapshot.indexerDeployments, snapshot.allocations)
    IN [pc |-> "delay",
        epoch |-> snapshot.epoch,
        maxEpochsPerAllocation |-> snapshot.maxEpochsPerAllocation,
        networkDeployments |-> network,
        indexerDeployments |-> snapshot.indexerDeployments,
        allocations |-> snapshot.allocations,
        toDeploy |-> plan.toDeploy,
        toRemove |-> plan.toRemove,
        toSettle |-> plan.toSettle,
        toAllocate |-> plan.toAllocate,
        settled |-> Len(plan.toSettle),
        allocated |-> Len(plan.toAllocate),
        tasks |-> AllDone(Submitted(plan.toDeploy, plan.toRemove))]

\* What the collaborators return to the tick after one that gathered the
\* current snapshot and applied the current plan: the epoch, the chain
\* parameters and the network-desired deployments are the same, the
\* allocations and the indexed deployments are what the tick's calls left.
NextSnapshot ==
    [epoch |-> epoch,
     maxEpochsPerAllocation |-> maxEpochsPerAllocation,
     networkSubgraphs |-> SubSeq(networkDeployments, 1, Len(networkDeployments) - 1),
     indexerDeployments |-> IndexedAfter(indexerDeployments, toDeploy, toRemove),
     allocations |-> AllocationsAfter(allocations, toSettle, toAllocate, epoch)]

\* The current state is that of a tick that gathered `snapshot` and succeeded.
IsTickDone(snapshot) ==
    \E done \in {TickDone(snapshot)} :
       /\ pc = done.pc
       /\ epoch = done.epoch
       /\ maxEpochsPerAllocation = done.maxEpochsPerAllocation
       /\ networkDeployments = done.networkDeployments
       /\ indexerDeployments = done.indexerDeployments
       /\ allocations = done.allocations
       /\ toDeploy = done.toDeploy
       /\ toRemove = done.toRemove
       /\ toSettle = done.toSettle
       /\ toAllocate = done.toAllocate
       /\ settled = done.settled
       /\ allocated = done.allocated
       /\ tasks = done.tasks

\* The steady-state loop has run a first tick, all of whose calls succeeded.
StableInit ==
    /\ \E snapshot \in StableSnapshots : IsTickDone(snapshot)
    /\ inflight = {}
    /\ ensureCalls = 0
    /\ unhandled = {}
    /\ warned = FALSE
    /\ startup = StartupDone
    /\ status = SyncedStatus
    /\ error = <<>>
    /\ QueryProcessorConstructed

\* One more tick of the steady-state loop, from the end of its delay(5000) to
\* the start of the next one, in which every collaborator call succeeds.
StableTick ==
    /\ pc = "delay"
    /\ \E snapshot \in {NextSnapshot} : \E done \in {TickDone(snapshot)} :
          /\ pc' = done.pc
          /\ epoch' = done.epoch
          /\ maxEpochsPerAllocation' = done.maxEpochsPerAllocation
          /\ networkDeployments' = done.networkDeployments
          /\ indexerDeployments' = done.indexerDeployments
          /\ allocations' = done.allocations
          /\ toDeploy' = done.toDeploy
          /\ toRemove' = done.toRemove
          /\ toSettle' = done.toSettle
          /\ toAllocate' = done.toAllocate
          /\ settled' = done.settled
          /\ allocated' = done.allocated
          /\ tasks' = done.tasks
    /\ UNCHANGED <<inflight, ensureCalls, unhandled, warned>>
    /\ UNCHANGED startVars
    /\ UNCHANGED qpVars

StableSpec == StableInit /\ [][StableTick]_vars

\* The loop's delay(5000) ends and the next tick runs.
StableFairSpec == StableSpec /\ WF_vars(StableTick)

\* C22 as stated: under an environment that stands still and collaborators
\* that never fail, from some tick on every plan has an empty toSettle, an
\* empty toAllocate and an empty toRemove.
C22_Original == <>[](toSettle = <<>> /\ toAllocate = <<>> /\ toRemove = <<>>)

\* ------------------------------------------------ QueryProcessor: the calls

\* The calls of addPaidQuery and addPayment a run makes at most.
MaxCalls == 3

\* An optional field of a PendingQuery that has not been set.
Undefined == "undefined"

\* Map.has, Map.set and Map.delete.
Has(map, key) == key \in DOMAIN map

MapSet(map, key, value) ==
    [k \in DOMAIN map \cup {key} |-> IF k = key THEN value ELSE map[k]]

MapDelete(map, key) == [k \in DOMAIN map \ {key} |-> map[k]]

\* The pending query a first call for a payment id puts in the map: one of
\* query and payment (by the subgraph it names, or the subgraph of the state
\* channel it came over), a fresh updatedAt, an emitter nobody listens to.
NewEntry(query, payment) ==
    [query |-> query, payment |-> payment, age |-> 0, listeners |-> {}]

\* emitter.emit(event, value): every listener's promise that is still pending
\* settles with the value; a settled promise stays as it is.
Emit(cs, listeners, outcome) ==
    [c \in DOMAIN cs |->
        IF c \in listeners /\ cs[c].outcome = "waiting"
        THEN [cs[c] EXCEPT !.outcome = outcome]
        ELSE cs[c]]

\* Mutant: a pending query is ready when either of query and payment is there.
ReadyWithEither(entry) == entry.payment # Undefined \/ entry.query # Undefined

\* `query.payment !== undefined && query.query !== undefined`
Ready(entry) == entry.payment # Undefined /\ entry.query # Undefined

\* What processQueryIfReady does when the query is not ready: nothing.
NotProcessed == [emit |-> Undefined, delete |-> FALSE, post |-> FALSE]

\* Mutant: processNow leaves the pending query in the map.
ProcessNowKeepsEntry(entry) ==
    IF entry.query \in Channels
    THEN [emit |-> Undefined, delete |-> FALSE, post |-> TRUE]
    ELSE [emit |-> "Unknown subgraph", delete |-> FALSE, post |-> FALSE]

\* processNow up to its first await: without a state channel for the query's
\* subgraph it emits 'reject' with the 404 error and returns, the entry staying
\* in the map; with one it deletes the entry and posts the query to the graph
\* node.
ProcessNow(entry) ==
    IF entry.query \in Channels
    THEN [emit |-> Undefined, delete |-> TRUE, post |-> TRUE]
    ELSE [emit |-> "Unknown subgraph", delete |-> FALSE, post |-> FALSE]

\* processQueryIfReady, called by `call` with the entry as the caller has just
\* left it: processNow is called when the entry is ready and runs to its first
\* await, and only then do the caller's listeners go on the entry's emitter.
ProcessQueryIfReady(paymentId, entry, call) ==
    LET caller == Len(calls) + 1
        now == IF Ready(entry) THEN ProcessNow(entry) ELSE NotProcessed
        heard == [entry EXCEPT !.listeners = @ \cup {caller}]
    IN /\ calls' = IF now.emit = Undefined
                   THEN Append(calls, call)
                   ELSE Emit(Append(calls, call), entry.listeners, now.emit)
       /\ queries' = IF now.delete
                     THEN MapDelete(queries, paymentId)
                     ELSE MapSet(queries, paymentId, heard)
       /\ requests' = IF now.post
                      THEN requests \cup {[paymentId |-> paymentId,
                                           query |-> heard.query,
                                           payment |-> heard.payment,
                                           listeners |-> heard.listeners]}
                      ELSE requests
       /\ posts' = IF now.post THEN [posts EXCEPT ![paymentId] = @ + 1] ELSE posts

\* addPaidQuery({subgraphId, paymentId, ...}): a second query for an entry that
\* has one throws; otherwise the query goes into the entry (a new one if the
\* map has none), updatedAt is set and processQueryIfReady is awaited.
AddPaidQuery(paymentId, subgraphId) ==
    /\ Len(calls) < MaxCalls
    /\ LET call == [op |-> "addPaidQuery", paymentId |-> paymentId,
                    subgraphId |-> subgraphId, outcome |-> "waiting"]
       IN IF Has(queries, paymentId) /\ queries[paymentId].query # Undefined
          THEN /\ calls' = Append(calls, [call EXCEPT !.outcome = "Duplicate query"])
               /\ UNCHANGED <<queries, requests, posts>>
          ELSE ProcessQueryIfReady(
                   paymentId,
                   IF Has(queries, paymentId)
                   THEN [queries[paymentId] EXCEPT !.query = subgraphId, !.age = 0]
                   ELSE NewEntry(subgraphId, Undefined),
                   call)
    /\ UNCHANGED <<unlocked, cancelled, sweepIn>>
    /\ UNCHANGED agentVars

\* A payment with this id has been handed to addPayment before.
Paid(paymentId) ==
    \E c \in DOMAIN calls :
        calls[c].op = "addPayment" /\ calls[c].paymentId = paymentId

\* addPayment(stateChannel, payment): the payment goes into the entry (a new
\* one if the map has none) with the subgraph of the state channel it came
\* over, updatedAt is set and processQueryIfReady is awaited. A conditional
\* payment arrives once: no two calls carry the same payment id.
AddPayment(paymentId, channel) ==
    /\ Len(calls) < MaxCalls
    /\ ~Paid(paymentId)
    /\ ProcessQueryIfReady(
           paymentId,
           IF Has(queries, paymentId)
           THEN [queries[paymentId] EXCEPT !.payment = channel, !.age = 0]
           ELSE NewEntry(Undefined, channel),
           [op |-> "addPayment", paymentId |-> paymentId,
            subgraphId |-> channel, outcome |-> "waiting"])
    /\ UNCHANGED <<unlocked, cancelled, sweepIn>>
    /\ UNCHANGED agentVars

\* processNow after `await this.graphNode.post(...)` has returned a response
\* (of any HTTP status: validateStatus accepts all): it emits 'resolve' with
\* the result, then calls unlockPayment on the subgraph's state channel.
PostReturns(request) ==
    /\ request \in requests
    /\ requests' = requests \ {request}
    /\ calls' = Emit(calls, request.listeners, "resolved")
    /\ unlocked' = unlocked \cup {request.paymentId}
    /\ UNCHANGED <<queries, posts, cancelled, sweepIn>>
    /\ UNCHANGED agentVars

\* `await this.graphNode.post(...)` rejects (no response from the graph node):
\* processNow's promise, which nobody awaits, rejects; nothing is emitted.
PostFails(request) ==
    /\ request \in requests
    /\ requests' = requests \ {request}
    /\ UNCHANGED <<queries, calls, posts, unlocked, cancelled, sweepIn>>
    /\ UNCHANGED agentVars

\* Mutant: an entry is stale from the threshold on.
StaleFromThreshold(age) == age * TimeStep >= StaleAfter

\* `now - query.updatedAt > 10000`
Stale(age) == age * TimeStep > StaleAfter

\* The error the sweep rejects a stale entry's listeners with.
TimedOut(entry) ==
    IF entry.payment # Undefined
    THEN "timed out waiting for query"
    ELSE "timed out waiting for payment"

\* One step of time passes while the cleanup loop sleeps.
TimePasses ==
    /\ sweepIn > 0
    /\ sweepIn' = sweepIn - 1
    /\ queries' = [p \in DOMAIN queries |->
                      [queries[p] EXCEPT !.age = IF @ < MaxAge THEN @ + 1 ELSE @]]
    /\ UNCHANGED <<calls, requests, posts, unlocked, cancelled>>
    /\ UNCHANGED agentVars

\* One iteration of periodicallyCleanupStaleQueries: every stale entry is
\* deleted and its listeners are rejected; for one with a payment the cleanup
\* queue (never more than its 10 tasks at a time here) calls cancelPayment on
\* the state channel of the payment's subgraph; then the loop sleeps again.
Sweep ==
    /\ sweepIn = 0
    /\ sweepIn' = SweepDelay \div TimeStep
    /\ LET stale == {p \in DOMAIN queries : Stale(queries[p].age)}
       IN /\ queries' = [p \in DOMAIN queries \ stale |-> queries[p]]
          /\ calls' = [c \in DOMAIN calls |->
                          IF /\ calls[c].outcome = "waiting"
                             /\ calls[c].paymentId \in stale
                             /\ c \in queries[calls[c].paymentId].listeners
                          THEN [calls[c] EXCEPT
                                   !.outcome = TimedOut(queries[calls[c].paymentId])]
                          ELSE calls[c]]
          /\ cancelled' = cancelled \cup
                             {p \in stale : queries[p].payment \in Channels}
    /\ UNCHANGED <<requests, posts, unlocked>>
    /\ UNCHANGED agentVars

QueryProcessorNext ==
    \/ \E p \in PaymentIds : \E s \in Subgraphs : AddPaidQuery(p, s)
    \/ \E p \in PaymentIds : \E ch \in Channels : AddPayment(p, ch)
    \/ \E r \in requests : PostReturns(r)
    \/ \E r \in requests : PostFails(r)
    \/ TimePasses
    \/ Sweep

QueryProcessorSpec == Init /\ [][QueryProcessorNext]_vars

\* Time passes, the sweep's timer fires, and every request to the graph node
\* comes to an end, with a response or without one.
QueryProcessorFairSpec ==
    /\ QueryProcessorSpec
    /\ WF_vars(TimePasses)
    /\ WF_vars(Sweep)
    /\ WF_vars(\E r \in requests : PostReturns(r) \/ PostFails(r))

\* ------------------------------------------ claims about the QueryProcessor

\* Some call of `op` has been made with this payment id.
Called(op, paymentId) ==
    \E c \in DOMAIN calls : calls[c].op = op /\ calls[c].paymentId = paymentId

\* C23: the rendezvous of query and payment. A query that has been posted to
\* the graph node under a payment id had both addPaidQuery and addPayment
\* called with that id before, and the posted entry held both its query and
\* its payment; the post is issued by the call that brings the missing half,
\* whichever half came first, and takes the entry out of the map, so no entry
\* is posted twice and none is posted holding one half only.
C23_ExecutedOnlyWhenBothArrived ==
    /\ [](\A r \in requests : r.query # Undefined /\ r.payment # Undefined)
    /\ [](\A p \in PaymentIds :
             /\ posts[p] <= 1
             /\ posts[p] > 0 => Called("addPaidQuery", p) /\ Called("addPayment", p))
    /\ [][\A p \in PaymentIds :
             (posts'[p] # posts[p]) =>
                 /\ Has(queries, p)
                 /\ ~Has(queries', p)
                 /\ Len(calls') = Len(calls) + 1
                 /\ \/ /\ queries[p].query # Undefined
                       /\ queries[p].payment = Undefined
                       /\ calls'[Len(calls')].op = "addPayment"
                    \/ /\ queries[p].payment # Undefined
                       /\ queries[p].query = Undefined
                       /\ calls'[Len(calls')].op = "addPaidQuery"]_vars

\* A query whose payment came first is at the graph node, both callers wait
\* for it, and another payment id has an entry with a query only, not posted.
C23_Witness ==
    \E r \in requests : \E p \in PaymentIds \ {r.paymentId} :
        /\ calls[1].op = "addPayment"
        /\ r.listeners = {1, 2}
        /\ posts[r.paymentId] = 1
        /\ Has(queries, p)
        /\ queries[p].payment = Undefined
        /\ posts[p] = 0

\* The map holds an entry for the payment id that is ready and whose query
\* names a subgraph without a state channel.
ReadyForUnknownSubgraph(p) ==
    /\ Has(queries, p)
    /\ Ready(queries[p])
    /\ queries[p].query \notin Channels

\* C24 as stated: once a paid query is ready and its subgraph has no state
\* channel, every caller waiting on the payment id (every promise that
\* processQueryIfReady returned for it) has been rejected with the 404
\* 'Unknown subgraph' error.
C24_Original ==
    \A p \in PaymentIds :
        ReadyForUnknownSubgraph(p) =>
            \A c \in queries[p].listeners : calls[c].outcome = "Unknown subgraph"

Sweeping == sweepIn = 0 /\ sweepIn' # sweepIn

\* C26: the stale sweep. In a sweep, an entry last updated more than 10 s ago
\* leaves the map and every caller listening on it is settled; its payment, if
\* it holds one, is cancelled, and no cancel is issued for an entry with a
\* query only. An entry updated within the last 10 s stays as it is, its
\* callers keep waiting and nothing is cancelled for it.
C26_SweepRemovesStaleEntriesOnly ==
    [][Sweeping =>
         \A p \in DOMAIN queries :
            IF queries[p].age * TimeStep > StaleAfter
            THEN /\ ~Has(queries', p)
                 /\ \A c \in queries[p].listeners : calls'[c].outcome # "waiting"
                 /\ queries[p].payment # Undefined => p \in cancelled'
                 /\ queries[p].payment = Undefined =>
                        (p \in cancelled' <=> p \in cancelled)
            ELSE /\ Has(queries', p)
                 /\ queries'[p] = queries[p]
                 /\ \A c \in queries[p].listeners : calls'[c] = calls[c]
                 /\ p \in cancelled' <=> p \in cancelled]_vars

\* A sweep has just run: it cancelled a payment whose query never came and
\* left a younger entry in the map; an earlier sweep rejected a query whose
\* payment never came, and cancelled nothing for it.
C26_Witness ==
    /\ sweepIn = SweepDelay \div TimeStep
    /\ \E p \in DOMAIN queries : \E q \in cancelled :
          /\ queries[p].age * TimeStep <= StaleAfter
          /\ queries[p].age > 0
          /\ p \notin cancelled
          /\ \E c \in DOMAIN calls :
                /\ calls[c].paymentId = q
                /\ calls[c].outcome = "timed out waiting for query"
    /\ \E c \in DOMAIN calls : calls[c].outcome = "timed out waiting for payment"

\* C27 as stated: every call of addPaidQuery or addPayment settles in the end,
\* whatever happens to it (the counterpart never comes, the subgraph is
\* unknown, the graph node answers, or the request to it fails), and no entry
\* stays in the map for ever.
C27_Original ==
    /\ \A c \in 1..MaxCalls :
          (c \in DOMAIN calls) ~>
              (c \in DOMAIN calls /\ calls[c].outcome # "waiting")
    /\ \A p \in PaymentIds : Has(queries, p) ~> ~Has(queries, p)

====
